---- MODULE Spec2Model ----
(***************************************************************************)
(* Rainbow-table generation and hash cracking of src/main.rs.              *)
(*                                                                         *)
(* Strings are sequences of one-character strings, byte vectors are        *)
(* sequences of 0..255.  A u32 is kept as its four big-endian bytes, since *)
(* TLC's integers are 32-bit signed and cannot hold 2^32 - 1.              *)
(***************************************************************************)
EXTENDS Integers, Sequences, FiniteSets, TLC

VARIABLES
    pc,            \* position of main / crack_hash
    fileExists,    \* fs::metadata(RAINBOW_TABLE_FILE).is_ok()
    fileParses,    \* File::open and serde_json::from_reader succeed on it
    fileContent,   \* the table rainbow_table.json deserializes to
    listOpens,     \* File::open("list.txt") succeeds
    lines,         \* the records reader.lines() yields, in order
    lineNo,        \* how many records generate_rainbow_table has consumed
    table,         \* RainbowTable.table : hex digest -> plaintext
    target_hash,   \* crack_hash's argument
    target_bytes,  \* hex::decode(target_hash)
    i,             \* crack_hash's outer loop variable
    j,             \* crack_hash's inner loop variable
    current_hash,  \* crack_hash's current_hash
    result,        \* crack_hash's return value
    nsteps,        \* inner iterations crack_hash has run (history)
    fps,           \* the <<i, j>> whose lookup hit and whose replay found nothing (history)
    trail,         \* what main has done so far (history)
    rd,            \* a call of reduce on its own: the digest argument
    rp,            \* a call of reduce on its own: the position argument
    rout           \* a call of reduce on its own: the returned string

vars == <<pc, fileExists, fileParses, fileContent, listOpens, lines, lineNo, table,
          target_hash, target_bytes, i, j, current_hash, result, nsteps, fps, trail,
          rd, rp, rout>>

\* Bounds of the model.
MaxChain == 3
MaxSeeds == 2
MaxFileEntries == 2

\* const CHAIN_LENGTH: usize = 300, explored at a small length.
CHAIN_LENGTH == MaxChain

None == <<"None">>
Some(x) == <<"Some", x>>
Err == <<"Err">>

\* The element of a one-element set.  { F(v) : v \in {e} } evaluates e once,
\* however often F uses v.
One(S) == CHOOSE x \in S : TRUE

---------------------------------------------------------------------------
\* Byte and u32 arithmetic

\* bitwise exclusive or of two naturals
RECURSIVE BitXor(_, _)
BitXor(a, b) ==
    IF a = 0 THEN b
    ELSE IF b = 0 THEN a
    ELSE (((a % 2) + (b % 2)) % 2) + (2 * BitXor(a \div 2, b \div 2))

\* u32::from_be_bytes([h0, h1, h2, h3]): the four bytes, most significant first
from_be_bytes(h, at) == <<h[at], h[at + 1], h[at + 2], h[at + 3]>>

\* position as u32: the low 32 bits of the usize
as_u32(position) ==
    << (position \div 16777216) % 256, (position \div 65536) % 256,
       (position \div 256) % 256, position % 256 >>

\* a ^ b on u32
xor_u32(a, b) ==
    << BitXor(a[1], b[1]), BitXor(a[2], b[2]), BitXor(a[3], b[3]), BitXor(a[4], b[4]) >>

\* carry out of byte k (1 = most significant) when adding a and b
RECURSIVE Carry(_, _, _)
Carry(a, b, k) ==
    IF k > 4 THEN 0 ELSE (a[k] + b[k] + Carry(a, b, k + 1)) \div 256

\* a.saturating_add(b) on u32: u32::MAX where the sum overflows
saturating_add(a, b) ==
    IF Carry(a, b, 1) = 1 THEN <<255, 255, 255, 255>>
    ELSE << (a[1] + b[1] + Carry(a, b, 2)) % 256, (a[2] + b[2] + Carry(a, b, 3)) % 256,
            (a[3] + b[3] + Carry(a, b, 4)) % 256, (a[4] + b[4]) % 256 >>

\* a.wrapping_add(b) on u32: the carry out of the top byte is dropped
wrapping_add(a, b) ==
    << (a[1] + b[1] + Carry(a, b, 2)) % 256, (a[2] + b[2] + Carry(a, b, 3)) % 256,
       (a[3] + b[3] + Carry(a, b, 4)) % 256, (a[4] + b[4]) % 256 >>

\* remainder of the first k bytes of a, read as a number, modulo m
RECURSIVE RemPrefix(_, _, _)
RemPrefix(a, k, m) ==
    IF k = 0 THEN 0 ELSE (RemPrefix(a, k - 1, m) * 256 + a[k]) % m

\* a % m and a / m on u32, by long division over the bytes
rem_u32(a, m) == RemPrefix(a, 4, m)
div_u32(a, m) ==
    << a[1] \div m,
       (RemPrefix(a, 1, m) * 256 + a[2]) \div m,
       (RemPrefix(a, 2, m) * 256 + a[3]) \div m,
       (RemPrefix(a, 3, m) * 256 + a[4]) \div m >>

---------------------------------------------------------------------------
\* reduce

charset ==
    << "A","B","C","D","E","F","G","H","I","J","K","L","M",
       "N","O","P","Q","R","S","T","U","V","W","X","Y","Z",
       "a","b","c","d","e","f","g","h","i","j","k","l","m",
       "n","o","p","q","r","s","t","u","v","w","x","y","z",
       "0","1","2","3","4","5","6","7","8","9" >>

charset_len == Len(charset)

\* the loop of reduce: push charset[num % charset_len], num /= charset_len
RECURSIVE ReduceLoop(_, _, _)
ReduceLoop(num, left, acc) ==
    IF left = 0 THEN acc
    ELSE One({ ReduceLoop(next[1], left - 1, next[2]) :
               next \in { << div_u32(num, charset_len),
                             Append(acc, charset[rem_u32(num, charset_len) + 1]) >> } })

ReduceNum(hash_, position) ==
    wrapping_add(xor_u32(from_be_bytes(hash_, 1), as_u32(position)),
                 from_be_bytes(hash_, 5))

reduce(hash_, position) ==
    One({ ReduceLoop(num, 6 + rem_u32(num, 3), << >>) :
          num \in { ReduceNum(SubSeq(hash_, 1, 8), position) } })

---------------------------------------------------------------------------
\* hash, hex

\* position of a character in charset
CharIndex(c) == CHOOSE k \in 1..charset_len : charset[k] = c

RECURSIVE WeightedSum(_, _)
WeightedSum(input, k) ==
    IF k = 0 THEN 0 ELSE WeightedSum(input, k - 1) + (CharIndex(input[k]) * k)

DIGEST_LEN == 20

\* hash(input): the 20-byte digest.  Sha1 is a library outside this
\* repository; it is represented by a deterministic function with the same
\* output length that is injective on strings of up to 11 charset characters
\* (bytes 9..20 spell the input), while bytes 1..8, the only ones reduce
\* reads, take few values, so that chains meet and merge within the bounds.
Sha1(v) ==
    << 0, 0, 0, (WeightedSum(v, Len(v)) + Len(v)) % 4 >>
    \o << 255, 255, 255, 252 >>
    \o << Len(v) >>
    \o SubSeq([k \in 1..11 |-> IF k <= Len(v) THEN CharIndex(v[k]) ELSE 0], 1, 11)

hash(input) == One({ Sha1(v) : v \in {input} })

HexDigits == << "0","1","2","3","4","5","6","7","8","9","a","b","c","d","e","f" >>
HexUpper == << "0","1","2","3","4","5","6","7","8","9","A","B","C","D","E","F" >>

\* hex::encode: two lowercase digits per byte
RECURSIVE hex_encode(_)
hex_encode(bytes) ==
    IF bytes = << >> THEN << >>
    ELSE << HexDigits[(Head(bytes) \div 16) + 1], HexDigits[(Head(bytes) % 16) + 1] >>
         \o hex_encode(Tail(bytes))

IsHexDigit(c) == \E k \in 1..16 : HexDigits[k] = c \/ HexUpper[k] = c
HexVal(c) == (CHOOSE k \in 1..16 : HexDigits[k] = c \/ HexUpper[k] = c) - 1

\* hex::decode is Err on an odd length or a character that is no hex digit
hex_decode_is_err(s) == (Len(s) % 2 = 1) \/ \E k \in 1..Len(s) : ~IsHexDigit(s[k])

\* the bytes hex::decode returns when it is Ok
hex_decode(s) ==
    SubSeq([k \in 1..(Len(s) \div 2) |->
               (16 * HexVal(s[(2 * k) - 1])) + HexVal(s[2 * k])], 1, Len(s) \div 2)

---------------------------------------------------------------------------
\* generate_rainbow_table

\* the inner loop of generate_rainbow_table: plaintext after positions k..CHAIN_LENGTH-1
\* a chain loop that stops one position early
RECURSIVE ChainFromShort(_, _)
ChainFromShort(plaintext, k) ==
    IF k >= CHAIN_LENGTH - 1 THEN plaintext
    ELSE One({ ChainFromShort(next, k + 1) : next \in { reduce(hash(plaintext), k) } })

RECURSIVE ChainFrom(_, _)
ChainFrom(plaintext, k) ==
    IF k >= CHAIN_LENGTH THEN plaintext
    ELSE One({ ChainFrom(next, k + 1) : next \in { reduce(hash(plaintext), k) } })

end_hash_hex(start_text) == hex_encode(hash(ChainFrom(start_text, 0)))

\* an insertion that keeps the value of a present key
InsertIfAbsent(t, key, value) ==
    IF key \in DOMAIN t THEN t
    ELSE [x \in DOMAIN t \cup {key} |-> IF x = key THEN value ELSE t[x]]

\* HashMap::insert: a present key has its value replaced
insert(t, key, value) ==
    [x \in DOMAIN t \cup {key} |-> IF x = key THEN value ELSE t[x]]

---------------------------------------------------------------------------
\* crack_hash

\* the replay loop: for k in 0..CHAIN_LENGTH, compare then reduce
\* a replay that reduces before it compares, so never compares the seed
RECURSIVE ReplayReduceFirst(_, _, _)
ReplayReduceFirst(plaintext, k, tb) ==
    IF k >= CHAIN_LENGTH THEN None
    ELSE One({ IF hash(next) = tb THEN Some(next) ELSE ReplayReduceFirst(next, k + 1, tb) :
               next \in { reduce(hash(plaintext), k) } })

\* a replay that compares only the eight bytes reduce reads
RECURSIVE ReplayPrefix(_, _, _)
ReplayPrefix(plaintext, k, tb) ==
    IF k >= CHAIN_LENGTH THEN None
    ELSE IF SubSeq(hash(plaintext), 1, 8) = SubSeq(tb, 1, 8) THEN Some(plaintext)
    ELSE One({ ReplayPrefix(next, k + 1, tb) : next \in { reduce(hash(plaintext), k) } })

\* a replay that stops one position early
RECURSIVE ReplayShort(_, _, _)
ReplayShort(plaintext, k, tb) ==
    IF k >= CHAIN_LENGTH - 1 THEN None
    ELSE IF hash(plaintext) = tb THEN Some(plaintext)
    ELSE One({ ReplayShort(next, k + 1, tb) : next \in { reduce(hash(plaintext), k) } })

\* a replay that goes one position further and compares the endpoint text
RECURSIVE ReplayOneMore(_, _, _)
ReplayOneMore(plaintext, k, tb) ==
    IF k > CHAIN_LENGTH THEN None
    ELSE IF hash(plaintext) = tb THEN Some(plaintext)
    ELSE One({ ReplayOneMore(next, k + 1, tb) : next \in { reduce(hash(plaintext), k) } })

RECURSIVE Replay(_, _, _)
Replay(plaintext, k, tb) ==
    IF k >= CHAIN_LENGTH THEN None
    ELSE IF hash(plaintext) = tb THEN Some(plaintext)
    ELSE One({ Replay(next, k + 1, tb) : next \in { reduce(hash(plaintext), k) } })

\* the table lookup of one inner iteration and the replay it starts
Lookup(t, cur, jj, tb) ==
    LET key == hex_encode(hash(reduce(cur, jj)))
    IN  IF key \in DOMAIN t THEN Replay(t[key], 0, tb) ELSE None

\* a lookup that hits while its replay finds nothing
FalsePositive(t, cur, jj, tb) ==
    /\ hex_encode(hash(reduce(cur, jj))) \in DOMAIN t
    /\ Lookup(t, cur, jj, tb) = None

---------------------------------------------------------------------------
\* Inputs explored

casper4 == << "c","a","s","p","e","r","4" >>
SeedPool == { casper4, << "a","b","c" >>, << >> }

\* let target_hash = "0da49c9a507b3a983d1804a675ae8cb9422746d7"
MAIN_TARGET ==
    << "0","d","a","4","9","c","9","a","5","0","7","b","3","a","9","8","3","d","1","8",
       "0","4","a","6","7","5","a","e","8","c","b","9","4","2","2","7","4","6","d","7" >>

RECURSIVE SeqsUpTo(_, _)
SeqsUpTo(S, n) ==
    IF n = 0 THEN { << >> }
    ELSE LET shorter == SeqsUpTo(S, n - 1)
         IN  shorter \cup { Append(q, x) : q \in shorter, x \in S }

\* the records of list.txt: up to MaxSeeds strings, or fewer strings and then
\* Err, a record that cannot be read (what follows it is never read)
LineLists ==
    SeqsUpTo(SeedPool, MaxSeeds)
    \cup { Append(q, Err) : q \in SeqsUpTo(SeedPool, MaxSeeds - 1) }

\* the text at position n of the chain started at seed
RECURSIVE ChainText(_, _)
ChainText(seed, n) ==
    IF n = 0 THEN seed
    ELSE One({ reduce(hash(prev), n - 1) : prev \in { ChainText(seed, n - 1) } })

ChainTexts == { ChainText(s, n) : s \in SeedPool, n \in 0..CHAIN_LENGTH }

EmptyTable == [x \in {} |-> << >>]

\* what rainbow_table.json may hold: any mapping of strings to strings;
\* explored are the tables of up to MaxFileEntries entries from a digest of
\* a chain text, or a key that is no digest, to a seed
FileKeys ==
    { hex_encode(hash(ChainText(s0, n))) : s0 \in SeedPool, n \in 1..CHAIN_LENGTH }
    \cup { << "z","z" >> }

FileTables ==
    { [x \in K |-> f[x]] :
        K \in { K0 \in SUBSET FileKeys : Cardinality(K0) <= MaxFileEntries },
        f \in [FileKeys -> SeedPool] }

\* the strings handed to crack_hash: digests of chain texts, the digest main
\* asks for, one digest in upper case, and strings that are not hex-encoded
\* 20-byte digests (empty, not hex, odd length, 2 bytes, 8 bytes)
Targets ==
    { hex_encode(hash(t)) : t \in ChainTexts }
    \cup { MAIN_TARGET,
           SubSeq([k \in 1..40 |-> HexUpper[HexVal(hex_encode(hash(casper4))[k]) + 1]], 1, 40),
           << >>, << "z","z" >>, << "a","b","c" >>, << "0","d","a","4" >>,
           SubSeq(MAIN_TARGET, 1, 16) }

---------------------------------------------------------------------------
\* main

Init ==
    /\ pc = "main"
    /\ fileExists \in BOOLEAN
    /\ fileParses \in (IF fileExists THEN BOOLEAN ELSE {FALSE})
    /\ fileContent \in (IF fileParses THEN FileTables ELSE {EmptyTable})
    /\ listOpens \in (IF fileExists THEN {TRUE} ELSE BOOLEAN)
    /\ lines \in (IF fileExists \/ ~listOpens THEN { << >> } ELSE LineLists)
    /\ lineNo = 0
    /\ table = EmptyTable
    /\ target_hash = << >>
    /\ target_bytes = << >>
    /\ i = 0
    /\ j = 0
    /\ current_hash = << >>
    /\ result = None
    /\ nsteps = 0
    /\ fps = {}
    /\ trail = << >>
    /\ rd = << >>
    /\ rp = 0
    /\ rout = << >>

fileVars == <<fileExists, fileParses, fileContent>>
crackVars == <<target_hash, target_bytes, i, j, current_hash, result, nsteps, fps>>
envVars == <<listOpens, lines>>
reduceVars == <<rd, rp, rout>>

\* load_rainbow_table()? : the file opens and parses, or main returns the error
load_rainbow_table ==
    /\ pc = "main"
    /\ fileExists
    /\ IF ~fileParses
       THEN /\ pc' = "error"
            /\ trail' = Append(trail, "load failed")
            /\ table' = table
       ELSE /\ pc' = "ready"
            /\ trail' = Append(trail, "load")
            /\ table' = fileContent
    /\ UNCHANGED <<fileVars, lineNo, crackVars, envVars, reduceVars>>

\* generate_rainbow_table()? up to the loop: File::open("list.txt")?
generate_open ==
    /\ pc = "main"
    /\ ~fileExists
    /\ IF listOpens
       THEN /\ pc' = "generate"
            /\ table' = EmptyTable
            /\ trail' = trail
       ELSE /\ pc' = "error"
            /\ table' = table
            /\ trail' = Append(trail, "generate failed")
    /\ UNCHANGED <<fileVars, lineNo, crackVars, envVars, reduceVars>>

\* one iteration of the loop over reader.lines()
generate_line ==
    /\ pc = "generate"
    /\ lineNo < Len(lines)
    /\ LET line == lines[lineNo + 1]
       IN  IF line = Err
           THEN /\ pc' = "error"
                /\ trail' = Append(trail, "generate failed")
                /\ UNCHANGED <<table, lineNo>>
           ELSE /\ table' = insert(table, end_hash_hex(line), line)
                /\ lineNo' = lineNo + 1
                /\ UNCHANGED <<pc, trail>>
    /\ UNCHANGED <<fileVars, crackVars, envVars, reduceVars>>

\* Ok(RainbowTable { table }) once the lines are exhausted
generate_return ==
    /\ pc = "generate"
    /\ lineNo = Len(lines)
    /\ pc' = "save"
    /\ trail' = Append(trail, "generate")
    /\ UNCHANGED <<fileVars, lineNo, table, crackVars, envVars, reduceVars>>

\* a main that goes on when saving failed
save_ignoring_failure ==
    /\ pc = "save"
    /\ \E ok \in BOOLEAN :
          IF ok
          THEN /\ trail' = Append(trail, "save")
               /\ fileExists' = TRUE
               /\ fileParses' = TRUE
               /\ fileContent' = table
          ELSE /\ trail' = Append(trail, "save failed")
               /\ fileExists' \in BOOLEAN
               /\ UNCHANGED <<fileParses, fileContent>>
    /\ pc' = "ready"
    /\ UNCHANGED <<lineNo, table, crackVars, envVars, reduceVars>>

\* save_rainbow_table(&table)? : File::create and to_writer, either may fail,
\* and main returns the error
save_rainbow_table ==
    /\ pc = "save"
    /\ \E ok \in BOOLEAN :
          IF ok
          THEN /\ pc' = "ready"
               /\ trail' = Append(trail, "save")
               /\ fileExists' = TRUE
               /\ fileParses' = TRUE
               /\ fileContent' = table
          ELSE /\ pc' = "error"
               /\ trail' = Append(trail, "save failed")
               /\ fileExists' \in BOOLEAN   \* File::create may have succeeded
               /\ UNCHANGED <<fileParses, fileContent>>
    /\ UNCHANGED <<lineNo, table, crackVars, envVars, reduceVars>>

---------------------------------------------------------------------------
\* crack_hash, one inner iteration per step

\* entry of crack_hash: hex::decode(target_hash).expect(..) and the first
\* values of the loop variables
crack_enter(t) ==
    /\ pc = "ready"
    /\ target_hash' = t
    /\ trail' = Append(trail, "crack")
    /\ IF hex_decode_is_err(t)
       THEN /\ pc' = "panic"
            /\ UNCHANGED <<target_bytes, i, j, current_hash>>
       ELSE /\ pc' = "search"
            /\ target_bytes' = hex_decode(t)
            /\ i' = CHAIN_LENGTH - 1
            /\ j' = CHAIN_LENGTH - 1
            /\ current_hash' = hex_decode(t)
    /\ UNCHANGED <<fileVars, lineNo, table, result, nsteps, fps, envVars, reduceVars>>

crack_hash_call == \E t \in Targets : crack_enter(t)

\* the end of an outer iteration: the next i starts from
\* current_hash = target_bytes.clone(); after i = 0 the function returns None
NextOuter ==
    IF i > 0
    THEN /\ i' = i - 1
         /\ j' = i - 1
         /\ current_hash' = target_bytes
         /\ UNCHANGED <<pc, result>>
    ELSE /\ pc' = "done"
         /\ result' = None
         /\ UNCHANGED <<i, j, current_hash>>

\* the end of an inner iteration: current_hash = hash(&reduce(&current_hash, j))
\* and the next j, if there is one
NextInner(cur) ==
    IF j + 1 < CHAIN_LENGTH
    THEN /\ j' = j + 1
         /\ current_hash' = hash(reduce(cur, j))
         /\ UNCHANGED <<pc, i, result>>
    ELSE NextOuter

\* a search that gives up the outer position after a lookup that hit in vain
AdvanceAbandoning(cur) ==
    IF FalsePositive(table, cur, j, target_bytes) THEN NextOuter ELSE NextInner(cur)

\* what follows an inner iteration that did not return: whether the lookup
\* missed or the replay found nothing, the inner loop goes on
Advance(cur) == NextInner(cur)

\* one iteration of "for j in i..CHAIN_LENGTH"; reduce indexes hash[0..7]
\* and panics on a shorter slice
crack_step ==
    /\ pc = "search"
    /\ IF Len(current_hash) < 8
       THEN /\ pc' = "panic"
            /\ UNCHANGED <<i, j, current_hash, result, nsteps, fps>>
       ELSE /\ nsteps' = nsteps + 1
            /\ fps' = IF FalsePositive(table, current_hash, j, target_bytes)
                      THEN fps \cup { <<i, j>> } ELSE fps
            /\ LET found == Lookup(table, current_hash, j, target_bytes)
               IN  IF found # None
                   THEN /\ pc' = "done"
                        /\ result' = found
                        /\ UNCHANGED <<i, j, current_hash>>
                   ELSE Advance(current_hash)
    /\ UNCHANGED <<fileVars, lineNo, table, target_hash, target_bytes,
                   trail, envVars, reduceVars>>

Next ==
    \/ load_rainbow_table
    \/ generate_open
    \/ generate_line
    \/ generate_return
    \/ save_rainbow_table
    \/ crack_hash_call
    \/ crack_step

Spec == Init /\ [][Next]_vars

---------------------------------------------------------------------------
\* reduce on its own, over digests and positions of every shape

\* hash("casper4") as Sha1 computes it
SHA1_CASPER4 ==
    << 133, 0, 103, 30, 26, 239, 52, 7, 172, 200, 146, 115, 143, 194, 221, 190, 127, 34, 225, 209 >>

ReduceDigests ==
    { a \o b \o t :
        a \in { <<0, 0, 0, 0>>, <<255, 255, 255, 255>>, <<1, 2, 3, 4>>, <<128, 0, 0, 1>> },
        b \in { <<0, 0, 0, 0>>, <<255, 255, 255, 255>>, <<0, 0, 0, 1>>, <<5, 6, 7, 8>>,
                <<127, 255, 255, 255>> },
        t \in { << >>, <<9, 9, 9, 9, 9, 9, 9, 9, 9, 9, 9, 9>> } }
    \cup { SHA1_CASPER4 }

ReducePositions == { 0, 1, 2, 255, 256, 299, 65535, 16777217, 2147483647 }

InitReduce ==
    /\ pc = "reduce called"
    /\ rd \in ReduceDigests
    /\ rp \in ReducePositions
    /\ rout = << >>
    /\ fileExists = FALSE
    /\ fileParses = FALSE
    /\ fileContent = EmptyTable
    /\ listOpens = FALSE
    /\ lines = << >>
    /\ lineNo = 0
    /\ table = EmptyTable
    /\ target_hash = << >>
    /\ target_bytes = << >>
    /\ i = 0
    /\ j = 0
    /\ current_hash = << >>
    /\ result = None
    /\ nsteps = 0
    /\ fps = {}
    /\ trail = << >>

reduce_call ==
    /\ pc = "reduce called"
    /\ rout' = reduce(rd, rp)
    /\ pc' = "reduce returned"
    /\ UNCHANGED <<rd, rp, fileVars, lineNo, table, crackVars, trail, envVars>>

NextReduce == reduce_call

SpecReduce == InitReduce /\ [][NextReduce]_vars

---------------------------------------------------------------------------
\* Properties of reduce, stated on 16-bit halves of the 32-bit value

High16(h, at) == (h[at] * 256) + h[at + 1]
Low16(h, at) == (h[at + 2] * 256) + h[at + 3]

\* the low and high half of ((be32(d[0..4]) XOR (p mod 2^32)) + be32(d[4..8])) mod 2^32
NumLow(d, p) == (BitXor(Low16(d, 1), p % 65536) + Low16(d, 5)) % 65536
NumHigh(d, p) ==
    ( BitXor(High16(d, 1), (p \div 65536) % 65536) + High16(d, 5)
      + ((BitXor(Low16(d, 1), p % 65536) + Low16(d, 5)) \div 65536) ) % 65536

IsCharsetSymbol(c) == \E m \in 1..62 : charset[m] = c

\* <<high, low>> halves of the number whose base-62 digits, least significant
\* first, are the charset indexes of text[1..n]
RECURSIVE Base62Value(_, _, _)
Base62Value(text, from, n) ==
    IF from > n THEN <<0, 0>>
    ELSE LET rest == Base62Value(text, from + 1, n)
             low == (rest[2] * 62) + (CharIndex(text[from]) - 1)
         IN  << (rest[1] * 62) + (low \div 65536), low % 65536 >>

\* C4: reduce(d, p) has length 6 + (num mod 3), in {6,7,8}, every character
\* is one of the 62 symbols, and the characters are the base-62 digits of
\* num = ((be32(d[0..4]) XOR p) + be32(d[4..8])) mod 2^32, least significant
\* first (2^16 mod 3 = 1, so num mod 3 = (high + low) mod 3; num < 62^6, so
\* the digits after the sixth are 0, the symbol "A").
C4_ReduceShape ==
    pc = "reduce returned" =>
        /\ Len(rout) = 6 + ((NumHigh(rd, rp) + NumLow(rd, rp)) % 3)
        /\ Len(rout) \in {6, 7, 8}
        /\ \A k \in 1..Len(rout) : IsCharsetSymbol(rout[k])
        /\ Base62Value(rout, 1, 6) = << NumHigh(rd, rp), NumLow(rd, rp) >>
        /\ \A k \in 7..Len(rout) : rout[k] = "A"

\* reduce(hash("casper4"), 0) = "Vuvk5CAA", the value main's comment records
C4_Witness ==
    /\ pc = "reduce returned"
    /\ rd = SHA1_CASPER4
    /\ rp = 0
    /\ rout = << "V","u","v","k","5","C","A","A" >>

---------------------------------------------------------------------------
\* Properties of table construction and of the search

InTrail(e) == \E k \in 1..Len(trail) : trail[k] = e
Loaded == InTrail("load")

\* the key under which the chain started at seed is stored
EndKey(seed) == hex_encode(hash(ChainText(seed, CHAIN_LENGTH)))

\* the seeds generate_rainbow_table has inserted so far
Inserted == { lines[k] : k \in 1..lineNo }

TriangleSteps == (CHAIN_LENGTH * (CHAIN_LENGTH + 1)) \div 2

\* C1: a seed S inserted by table construction whose entry was not
\* overwritten is recovered: crack_hash(table, hex(digest(S))) = Some(S).
C1_CrackRecoversSeed ==
    (pc = "done" /\ ~Loaded) =>
        \A S \in Inserted :
            (table[EndKey(S)] = S /\ target_bytes = hash(S)) => result = Some(S)

\* a table of two chains, the target the digest of an inserted seed, found
\* after a lookup that hit the other chain in vain
C1_Witness ==
    /\ pc = "done"
    /\ ~Loaded
    /\ Cardinality(DOMAIN table) = 2
    /\ fps # {}
    /\ \E S \in Inserted :
          table[EndKey(S)] = S /\ target_hash = hex_encode(hash(S)) /\ result = Some(S)

\* the digests crack_hash's replay compares with the target: those of the
\* texts at positions 0..CHAIN_LENGTH-1 of the chains from the stored seeds
ReplayedDigests ==
    { hash(ChainText(table[key], n)) : key \in DOMAIN table, n \in 0..(CHAIN_LENGTH - 1) }

\* C2: a target that is the digest of no text on a chain replayed from a
\* stored seed yields None, after every position i = N-1..0 was searched to
\* the end, whatever lookups hit on the way.
C2_UnreachableGivesNone ==
    (pc = "done" /\ target_bytes \notin ReplayedDigests) =>
        /\ result = None
        /\ nsteps = TriangleSteps
        /\ i = 0

\* a 20-byte target off every stored chain, None after lookups that hit
C2_Witness ==
    /\ pc = "done"
    /\ Len(target_bytes) = DIGEST_LEN
    /\ target_bytes \notin ReplayedDigests
    /\ DOMAIN table # {}
    /\ fps # {}
    /\ result = None

Malformed(t) == hex_decode_is_err(t) \/ Len(hex_decode(t)) # DIGEST_LEN

\* C3: a malformed target (not hex, or not 20 bytes) is rejected before the
\* search: the call neither panics nor searches nor returns Some or None.
C3_MalformedRejected ==
    (InTrail("crack") /\ Malformed(target_hash)) => pc \notin {"panic", "search", "done"}

\* C5: while and after generate_rainbow_table runs, the chain from the seed
\* of every entry ends in the entry's key; no seeds, no entries.
C5_EntriesReproduce ==
    ~Loaded =>
        /\ \A key \in DOMAIN table : key = EndKey(table[key])
        /\ (lines = << >> => table = EmptyTable)

\* one of two lines processed, and its entry in the table
C5_Witness ==
    /\ pc = "generate"
    /\ Len(lines) = 2
    /\ lineNo = 1
    /\ DOMAIN table = { EndKey(lines[1]) }

\* the last of the first n lines whose chain ends in key
LastWith(key, n) == CHOOSE k \in 1..n :
    /\ EndKey(lines[k]) = key
    /\ \A m \in (k + 1)..n : EndKey(lines[m]) # key

\* C6: the table holds one entry per distinct endpoint of the seeds
\* processed, and its value is the seed that comes last in the input.
C6_LastWriteWins ==
    (~Loaded /\ pc # "main") =>
        /\ DOMAIN table = { EndKey(lines[k]) : k \in 1..lineNo }
        /\ Cardinality(DOMAIN table) = Cardinality({ EndKey(lines[k]) : k \in 1..lineNo })
        /\ \A key \in DOMAIN table : table[key] = lines[LastWith(key, lineNo)]

\* two different seeds with one endpoint, both processed: one entry, the later seed
C6_Witness ==
    /\ pc = "ready"
    /\ lineNo = 2
    /\ lines[1] # lines[2]
    /\ EndKey(lines[1]) = EndKey(lines[2])
    /\ Cardinality(DOMAIN table) = 1
    /\ table[EndKey(lines[1])] = lines[2]

\* C7: crack_hash is called only once a table was obtained: loaded where the
\* file exists (and then never generated), else generated and then saved;
\* after a failed load, generation or save it is never called.
C7_CrackOnlyAfterTable ==
    /\ \A k \in 1..Len(trail) :
          trail[k] = "crack" =>
              /\ k = Len(trail)
              /\ SubSeq(trail, 1, k - 1) \in { << "load" >>, << "generate", "save" >> }
    /\ (pc = "error") =>
          trail \in { << "load failed" >>, << "generate failed" >>,
                      << "generate", "save failed" >> }
    /\ (trail # << >> /\ trail[1] \in { "load", "load failed" }) =>
          fileExists /\ ~InTrail("generate") /\ ~InTrail("save")
    /\ (pc \in { "generate", "save" } \/ InTrail("generate failed")) => ~fileExists
    /\ InTrail("save") => (fileExists /\ fileParses /\ fileContent = table)
    /\ (pc \in { "ready", "search", "done", "panic" }) =>
          (InTrail("load") \/ InTrail("save"))

\* a run that generated, saved and then cracked
C7_Witness ==
    /\ pc = "done"
    /\ trail = << "generate", "save", "crack" >>

\* the lookup of the inner iteration about to run hits, and its replay finds nothing
FalsePositiveNow ==
    /\ pc = "search"
    /\ Len(current_hash) >= 8
    /\ FalsePositive(table, current_hash, j, target_bytes)

\* C8, as claimed: after a lookup that hit in vain at (i, j) the search
\* gives up position i and goes on with i - 1 (or ends, after i = 0).
C8_FalsePositiveAbandons ==
    [][ FalsePositiveNow =>
          IF i > 0
          THEN pc' = "search" /\ i' = i - 1 /\ j' = i - 1 /\ current_hash' = target_bytes
          ELSE pc' = "done" /\ result' = None ]_vars

\* C8, as the code has it: after a lookup that hit in vain at (i, j) the
\* inner loop goes on with j + 1 from hash(reduce(current_hash, j)); the
\* search moves to i - 1 (or ends, after i = 0) only after j = N - 1.
C8_FalsePositiveContinues ==
    [][ FalsePositiveNow =>
          IF j + 1 < CHAIN_LENGTH
          THEN /\ pc' = "search" /\ i' = i /\ j' = j + 1
               /\ current_hash' = hash(reduce(current_hash, j))
          ELSE IF i > 0
          THEN pc' = "search" /\ i' = i - 1 /\ j' = i - 1 /\ current_hash' = target_bytes
          ELSE pc' = "done" /\ result' = None ]_vars

\* the inner loop is at j + 1 of the same i right after a lookup that hit in vain at (i, j)
C8_Witness ==
    /\ pc = "search"
    /\ j > i
    /\ <<i, j - 1>> \in fps

\* C9: whatever the table holds, Some(p) is returned only for a p whose
\* digest is the target and that is the text at a position k <= N-1 of the
\* chain from a stored seed.
C9_Soundness ==
    (pc = "done" /\ result # None) =>
        /\ hash(result[2]) = target_bytes
        /\ \E key \in DOMAIN table, k \in 0..(CHAIN_LENGTH - 1) :
              result[2] = ChainText(table[key], k)

\* a plaintext returned from a loaded table whose entry is not the endpoint of its seed
C9_Witness ==
    /\ pc = "done"
    /\ Loaded
    /\ result # None
    /\ \E key \in DOMAIN table : key # EndKey(table[key])

\* the stored chains whose entry is intact: the key is the endpoint of the seed
IntactSeeds == { table[key] : key \in { x \in DOMAIN table : x = EndKey(table[x]) } }

\* C10, as claimed: a target that is the endpoint digest of a stored chain
\* yields Some of the endpoint plaintext.
C10_EndpointCracked ==
    pc = "done" =>
        \A S \in IntactSeeds :
            target_bytes = hash(ChainText(S, CHAIN_LENGTH))
                => result = Some(ChainText(S, CHAIN_LENGTH))

\* C10, as the code has it: a target that is the digest of the text at a
\* position k <= N-1 of a stored chain yields Some of that text (main's
\* target is the digest of position 1 of the chain from "casper4"); the
\* endpoint digest yields None unless the endpoint text is also at a
\* position k <= N-1 of a stored chain.
C10_ChainPositionCracked ==
    pc = "done" =>
        \A S \in IntactSeeds :
            /\ \A k \in 0..(CHAIN_LENGTH - 1) :
                  target_bytes = hash(ChainText(S, k)) => result = Some(ChainText(S, k))
            /\ ( /\ target_bytes = hash(ChainText(S, CHAIN_LENGTH))
                 /\ target_bytes \notin ReplayedDigests ) => result = None

\* the text after the last but one reduction of a stored chain, recovered
C10_Witness ==
    /\ pc = "done"
    /\ \E S \in IntactSeeds :
          /\ target_bytes = hash(ChainText(S, CHAIN_LENGTH - 1))
          /\ result = Some(ChainText(S, CHAIN_LENGTH - 1))
          /\ ChainText(S, CHAIN_LENGTH - 1) # S

====
